---- MODULE Spec2Model ----
(***************************************************************************)
(* The Zephyr for JIRA client of src/src/zephyr/zephyr.py as a state       *)
(* machine: one Zephyr instance, the HTTP requests it issues, the          *)
(* outcome of the last call made on it, and the lazily loaded project      *)
(* cache.  The server, the jira library's discovery call and the caller's  *)
(* arguments are the environment and are drawn from small sets.            *)
(*                                                                         *)
(* An exception is a string naming its Python class; "" means the call     *)
(* returned.  The instance's methods act on the object whose fields        *)
(* __init__ assigned (lines 36-45); __init__ assigns them all before it    *)
(* calls _check_connection, so the object the methods receive as self is   *)
(* the same whatever the connectivity check did.                           *)
(***************************************************************************)
EXTENDS Integers, Sequences, FiniteSets, TLC

VARIABLES
    constructed,     \* "no" before __init__ ran, then "returned" or "raised"
    projects,        \* self._projects
    last,            \* the last call on the instance: operation, input, outcome
    discoveryCalls,  \* how many times jira_session.projects() was invoked
    calls,           \* how many calls were made on the instance (bounds the run)
    tpc,             \* per thread: position inside the projects accessor
    tlocal,          \* per thread: the local list `projects` of _load_projects
    tret,            \* per thread: what the accessor returned
    stores           \* the threads that executed line 71, in order

vars == <<constructed, projects, last, discoveryCalls, calls, tpc, tlocal, tret, stores>>

----------------------------------------------------------------------------
\* Bounds of the model.

MaxCalls == 2        \* calls made on the instance in one run
MaxProjects == 2     \* projects in one discovery result

----------------------------------------------------------------------------
\* Module-level constants (lines 18-26).

ERROR_DESC == "errorDesc"

\* A format string is the sequence of its literal pieces and "{}" fields.
ZAPI_URL == <<"{}", "/rest/zapi/latest/">>
EMPTY_CYCLES_REQUEST == ZAPI_URL \o <<"cycle?expand=">>
EXECUTIONS_ZQL_URL == ZAPI_URL \o <<"zql/executeSearch?zqlQuery=", "{}">>
MOVE_EXEUCTIONS_URL == ZAPI_URL \o <<"cycle/", "{}", "/move/executions/folder/", "{}">>

SERVER == "https://jira"

\* str.format: the fields are filled left to right from the positional
\* arguments; a field with no argument left raises IndexError, surplus
\* arguments are ignored.
Fields(tpl) == Cardinality({i \in 1..Len(tpl) : tpl[i] = "{}"})

RECURSIVE Fill(_, _)
Fill(tpl, args) ==
    IF tpl = <<>> THEN <<>>
    ELSE IF Head(tpl) = "{}"
         THEN <<Head(args)>> \o Fill(Tail(tpl), Tail(args))
         ELSE <<Head(tpl)>> \o Fill(Tail(tpl), args)

Format(tpl, args) ==
    IF Fields(tpl) > Len(args)
    THEN [exc |-> "IndexError", url |-> <<>>]
    ELSE [exc |-> "", url |-> Fill(tpl, args)]

----------------------------------------------------------------------------
\* The server's answers.

\* The raw bodies a server can send, by what they hold:
\*   "obj"       {"executions": []}                       a JSON object
\*   "objErr"    {"errorDesc": "no permission", ...}      the documented error payload
\*   "objBlank"  {"errorDesc": "", "errorId": "ERROR"}    the marker with an empty text
\*   "arr"       []                                        a JSON array
\*   "text"      an empty or HTML body                     not JSON
\*   "textErr"   an HTML page that quotes errorDesc        not JSON
Bodies == {"obj", "objErr", "objBlank", "arr", "text", "textErr"}

Statuses == {200, 204, 302, 401, 500}

\* A 200 is tried with every body; a 401 carries the error payload, the
\* other statuses a body that is not JSON.
Responses ==
    [status : {200}, body : Bodies] \cup
    [status : {401}, body : {"objErr"}] \cup
    [status : Statuses \ {200, 401}, body : {"text"}]

\* Python's None where a response object is expected.
NoResponse == [status |-> 0, body |-> "-"]

\* The request died in transport: requests raises ConnectionError or Timeout.
Unreachable == [status |-> -1, body |-> "-"]

\* What the server does with one request.
Answers == Responses \cup {Unreachable}

\* The literal marker occurs in the raw body.
HasMarker(body) == body \in {"objErr", "objBlank", "textErr"}

\* response.json(): the kind of value parsed, "invalid" when json() raises ValueError.
JsonKind(body) ==
    CASE body \in {"obj", "objErr", "objBlank"} -> "object"
      [] body = "arr" -> "array"
      [] OTHER -> "invalid"

\* response.json().get(ERROR_DESC) on a JSON object: None, "" or the text.
ErrorDescValue(body) ==
    CASE body = "objErr" -> "no permission"
      [] body = "objBlank" -> ""
      [] OTHER -> "None"

\* Python truthiness of that value.
Truthy(v) == v \notin {"None", ""}

----------------------------------------------------------------------------
\* Results of calls.  exc: the exception class raised ("" when the call
\* returned); resp: the response the exception carries (NoResponse when it
\* carries none); value: what the call returned; sent: the requests issued.

NoData == [projectId |-> "", versionId |-> "", schedulesList |-> <<>>]

Request(verb, url, data) == [verb |-> verb, url |-> url, data |-> data]

Result(exc, resp, value, sent) ==
    [exc |-> exc, resp |-> resp, value |-> value, sent |-> sent]

\* jira.resilientsession.raise_on_error(r), the library function called at
\* lines 101, 128 and 158: r is None -> JIRAError; status >= 400 -> JIRAError
\* carrying the response; any status outside 200, 201, 202, 204 -> JIRAError
\* carrying the response; otherwise it returns.
lib_raise_on_error(r) ==
    IF r = NoResponse THEN [exc |-> "JIRAError", resp |-> NoResponse]
    ELSE IF r.status >= 400 THEN [exc |-> "JIRAError", resp |-> r]
    ELSE IF r.status \notin {200, 201, 202, 204} THEN [exc |-> "JIRAError", resp |-> r]
    ELSE [exc |-> "", resp |-> NoResponse]

\* Lines 102-104 of get: parse the body, look the field up, raise when it is truthy.
ErrorDescCheck(body) ==
    IF JsonKind(body) = "invalid" THEN "ValueError"
    ELSE IF JsonKind(body) = "array" THEN "AttributeError"
    ELSE IF Truthy(ErrorDescValue(body)) THEN "JIRAError"
    ELSE ""

\* get has no return statement: its success path returns None, not the response.
GetReturnValue == "None"

\* The object a returned value stands for where a response is expected.
AsResponse(value, answer) == IF value = "response" THEN answer ELSE NoResponse

\* Mutant of get: a request that fails is sent once more before the error
\* is raised.
get_retry(url, answer) ==
    LET req == Request("GET", url, NoData)
        lib == lib_raise_on_error(answer)
    IN  IF answer = Unreachable
        THEN Result("ConnectionError", NoResponse, "None", <<req, req>>)
        ELSE IF lib.exc # "" THEN Result(lib.exc, lib.resp, "None", <<req, req>>)
        ELSE IF ErrorDescCheck(answer.body) # ""
             THEN Result(ErrorDescCheck(answer.body), NoResponse, "None", <<req>>)
        ELSE Result("", NoResponse, GetReturnValue, <<req>>)

\* Zephyr.get(url) when the server does `answer` (lines 99-104).
get(url, answer) ==
    LET sent == <<Request("GET", url, NoData)>>
        lib  == lib_raise_on_error(answer)
    IN  IF answer = Unreachable THEN Result("ConnectionError", NoResponse, "None", sent)
        ELSE IF lib.exc # "" THEN Result(lib.exc, lib.resp, "None", sent)
        ELSE IF ErrorDescCheck(answer.body) # ""
             THEN Result(ErrorDescCheck(answer.body), NoResponse, "None", sent)
        ELSE Result("", NoResponse, GetReturnValue, sent)

\* Zephyr._check_connection (lines 119-128): get, then the library check on
\* what get returned.
check_connection(answer) ==
    LET url == Format(EMPTY_CYCLES_REQUEST, <<SERVER>>)
        g   == get(url.url, answer)
        lib == lib_raise_on_error(AsResponse(g.value, answer))
    IN  IF g.exc # "" THEN g
        ELSE Result(lib.exc, lib.resp, "None", g.sent)

\* Zephyr.executions_zql (lines 86-97): get, then .json() of what get returned.
executions_zql(query, answer) ==
    LET url == Format(EXECUTIONS_ZQL_URL, <<SERVER, query>>)
        g   == get(url.url, answer)
    IN  IF g.exc # "" THEN g
        ELSE IF g.value = "None" THEN Result("AttributeError", NoResponse, "None", g.sent)
        ELSE IF JsonKind(answer.body) = "invalid"
             THEN Result("ValueError", NoResponse, "None", g.sent)
        ELSE Result("", NoResponse, answer.body, g.sent)

\* Zephyr.put (lines 106-107): the raw response is returned, unchecked.
put(url, data, answer) ==
    LET sent == <<Request("PUT", url, data)>>
    IN  IF answer = Unreachable THEN Result("ConnectionError", NoResponse, "None", sent)
        ELSE Result("", answer, "response", sent)

\* Lines 111-114: the payload of a move.
RECURSIVE Ids(_)
Ids(executions) ==
    IF executions = <<>> THEN <<>>
    ELSE <<Head(executions).id>> \o Ids(Tail(executions))

MovePayload(executions, folder) ==
    [projectId |-> folder.project,
     versionId |-> folder.version,
     schedulesList |-> Ids(executions)]

\* Line 110: the URL of a move.
MoveUrl(folder) == Format(MOVE_EXEUCTIONS_URL, <<folder.cycle, folder.id_>>)

\* Zephyr.move_executions (lines 109-117).
move_executions(executions, folder, answer) ==
    LET url == MoveUrl(folder)
        p   == put(url.url, MovePayload(executions, folder), answer)
    IN  IF url.exc # "" THEN Result(url.exc, NoResponse, "None", <<>>)
        ELSE IF p.exc # "" THEN p
        ELSE IF answer.status # 200 THEN Result("JIRAError", answer, "None", p.sent)
        ELSE Result("", NoResponse, "None", p.sent)

\* `ERROR_DESC in response.content` (line 156): a str looked up in the bytes
\* of requests' Response.content raises TypeError.
MarkerInContent(body) == "TypeError"

\* Zephyr.raise_on_error (lines 144-158).
raise_on_error(response) ==
    LET rewritten == [response EXCEPT !.status = 401]
        chk == IF response.status = 200 THEN MarkerInContent(response.body) ELSE "False"
        lib == lib_raise_on_error(IF chk = "True" THEN rewritten ELSE response)
    IN  IF chk = "TypeError" THEN Result("TypeError", NoResponse, "None", <<>>)
        ELSE Result(lib.exc, lib.resp, "None", <<>>)

----------------------------------------------------------------------------
\* The project cache (lines 45-84).

\* What jira_session.projects() can list: keys differ by case, and two
\* projects can carry the same key.
JiraProjects == {[key |-> "FOO", id |-> "10204"],
                 [key |-> "foo", id |-> "10205"],
                 [key |-> "FOO", id |-> "10206"]}

Names == {"FOO", "foo", "BAR"}

RECURSIVE SeqsUpTo(_, _)
SeqsUpTo(S, n) ==
    IF n = 0 THEN {<<>>}
    ELSE SeqsUpTo(S, n - 1) \cup
         {Append(q, x) : q \in {r \in SeqsUpTo(S, n - 1) : Len(r) = n - 1}, x \in S}

\* The discovery call of lines 66-67 (the jira session and its projects()):
\* it raises, or it lists projects.
Discoveries ==
    {[exc |-> "JIRAError", found |-> <<>>]} \cup
    {[exc |-> "", found |-> f] : f \in SeqsUpTo(JiraProjects, MaxProjects)}

\* Lines 68-70: one Project per listed project, in order (the shared session
\* every Project carries is the same object and is left out).
RECURSIVE MapProjects(_)
MapProjects(found) ==
    IF found = <<>> THEN <<>>
    ELSE <<[name |-> Head(found).key, id_ |-> Head(found).id]>> \o MapProjects(Tail(found))

\* self._projects: the None sentinel of line 45, or a list.
None == [loaded |-> FALSE, items |-> <<>>]
Loaded(items) == [loaded |-> TRUE, items |-> items]

\* Mutant of IsNone: `if not self._projects`, which also takes an empty list.
IsNone_falsy(p) == ~p.loaded \/ p.items = <<>>

\* Line 55: `self._projects is None`.
IsNone(p) == ~p.loaded

\* Mutant of StoreProjects: the list is stored only while the cache is None.
StoreProjects_keepFirst(cur, new) == IF cur.loaded THEN cur ELSE Loaded(new)

\* Line 71: the assignment to self._projects.
StoreProjects(cur, new) == Loaded(new)

\* Mutant of AfterFailedDiscovery: the cache is set to an empty list before
\* discovery is called.
AfterFailedDiscovery_empty(cur) == Loaded(<<>>)

\* What a discovery that raised leaves in self._projects: line 71 is not reached.
AfterFailedDiscovery(cur) == cur

\* Zephyr._load_projects (lines 59-72).
load_projects(cur, discovery) ==
    IF discovery.exc # ""
    THEN [exc |-> discovery.exc, projects |-> AfterFailedDiscovery(cur)]
    ELSE [exc |-> "", projects |-> StoreProjects(cur, MapProjects(discovery.found))]

\* The projects property (lines 48-57).  called: whether discovery was invoked.
projects_get(cur, discovery) ==
    LET l == load_projects(cur, discovery)
    IN  IF IsNone(cur)
        THEN [exc |-> l.exc, projects |-> l.projects, called |-> 1,
              ret |-> IF l.exc = "" THEN l.projects.items ELSE <<>>]
        ELSE [exc |-> "", projects |-> cur, called |-> 0, ret |-> cur.items]

Lower(n) == IF n = "FOO" THEN "foo" ELSE IF n = "BAR" THEN "bar" ELSE n

\* Mutant of NameMatches: the names are compared without regard to case.
NameMatches_ignoreCase(x, name) == Lower(x.name) = Lower(name)

\* Line 83: `x.name == name`.
NameMatches(x, name) == x.name = name

Matches(items, name) == SelectSeq(items, LAMBDA x : NameMatches(x, name))

\* Line 83: `proj, = [...]` unpacks a list of exactly one element.
Unpack1(list) ==
    IF Len(list) = 1 THEN [exc |-> "", ret |-> list] ELSE [exc |-> "ValueError", ret |-> <<>>]

\* Zephyr.project (lines 74-84).
project(cur, name, discovery) ==
    LET g == projects_get(cur, discovery)
        u == Unpack1(Matches(g.ret, name))
    IN  IF g.exc # "" THEN g
        ELSE [exc |-> u.exc, projects |-> g.projects, called |-> g.called, ret |-> u.ret]

----------------------------------------------------------------------------
\* The caller's inputs.

Queries == {"project = FOO"}

\* The execution lists handed to move_executions.
ExecutionLists == {<<>>, <<[id |-> "e1"]>>,
                   <<[id |-> "e1"], [id |-> "e2"]>>, <<[id |-> "e2"], [id |-> "e1"]>>}

Folders == {[project |-> "10204", version |-> "20418", cycle |-> "3447", id_ |-> "330"],
            [project |-> "10205", version |-> "20419", cycle |-> "3448", id_ |-> "331"]}

Threads == {"t1", "t2"}

----------------------------------------------------------------------------
\* The state machine.

NoFolder == [project |-> "", version |-> "", cycle |-> "", id_ |-> ""]
NoDiscovery == [exc |-> "", found |-> <<>>]

\* The record of a call: what was called, with what, what the environment
\* did, and how the call ended.
Call(op, arg, execs, folder, answer, r) ==
    [op |-> op, arg |-> arg, execs |-> execs, folder |-> folder, answer |-> answer,
     exc |-> r.exc, resp |-> r.resp, value |-> r.value, sent |-> r.sent,
     before |-> None, discovery |-> NoDiscovery, called |-> 0, ret |-> <<>>]

CacheCall(op, arg, cur, discovery, g) ==
    [op |-> op, arg |-> arg, execs |-> <<>>, folder |-> NoFolder, answer |-> NoResponse,
     exc |-> g.exc, resp |-> NoResponse, value |-> "None", sent |-> <<>>,
     before |-> cur, discovery |-> discovery, called |-> g.called, ret |-> g.ret]

NoCall == Call("", "", <<>>, NoFolder, NoResponse, Result("", NoResponse, "None", <<>>))

Init ==
    /\ constructed = "no"
    /\ projects = None
    /\ last = NoCall
    /\ discoveryCalls = 0
    /\ calls = 0
    /\ tpc = [t \in Threads |-> "idle"]
    /\ tlocal = [t \in Threads |-> <<>>]
    /\ tret = [t \in Threads |-> <<>>]
    /\ stores = <<>>

threadVars == <<tpc, tlocal, tret, stores>>

Live == constructed # "no" /\ calls < MaxCalls

\* Zephyr.__init__ (lines 31-46).
Construct ==
    /\ constructed = "no"
    /\ \E answer \in Answers :
         LET r == check_connection(answer)
         IN  /\ constructed' = IF r.exc = "" THEN "returned" ELSE "raised"
             /\ last' = Call("__init__", "", <<>>, NoFolder, answer, r)
    /\ projects' = None
    /\ UNCHANGED <<discoveryCalls, calls, threadVars>>

\* Zephyr.get called by the user of the client.
Get ==
    /\ Live
    /\ \E answer \in Answers :
         last' = Call("get", "", <<>>, NoFolder, answer,
                      get(Format(EMPTY_CYCLES_REQUEST, <<SERVER>>).url, answer))
    /\ calls' = calls + 1
    /\ UNCHANGED <<constructed, projects, discoveryCalls, threadVars>>

ExecutionsZql ==
    /\ Live
    /\ \E query \in Queries, answer \in Answers :
         last' = Call("executions_zql", query, <<>>, NoFolder, answer,
                      executions_zql(query, answer))
    /\ calls' = calls + 1
    /\ UNCHANGED <<constructed, projects, discoveryCalls, threadVars>>

Put ==
    /\ Live
    /\ \E answer \in Answers :
         last' = Call("put", "", <<>>, NoFolder, answer,
                      put(Format(EMPTY_CYCLES_REQUEST, <<SERVER>>).url, NoData, answer))
    /\ calls' = calls + 1
    /\ UNCHANGED <<constructed, projects, discoveryCalls, threadVars>>

MoveExecutions ==
    /\ Live
    /\ \E executions \in ExecutionLists, folder \in Folders :
         \* the server answers only a request that is sent
         \E answer \in IF MoveUrl(folder).exc = "" THEN Answers ELSE {NoResponse} :
           last' = Call("move_executions", "", executions, folder, answer,
                        move_executions(executions, folder, answer))
    /\ calls' = calls + 1
    /\ UNCHANGED <<constructed, projects, discoveryCalls, threadVars>>

RaiseOnError ==
    /\ Live
    /\ \E response \in Responses :
         last' = Call("raise_on_error", "", <<>>, NoFolder, response,
                      raise_on_error(response))
    /\ calls' = calls + 1
    /\ UNCHANGED <<constructed, projects, discoveryCalls, threadVars>>

\* A read of the projects property.
ReadProjects ==
    /\ Live
    /\ \E discovery \in Discoveries :
         LET g == projects_get(projects, discovery)
         IN  /\ projects' = g.projects
             /\ discoveryCalls' = discoveryCalls + g.called
             /\ last' = CacheCall("projects", "", projects,
                                  IF g.called = 1 THEN discovery ELSE NoDiscovery, g)
    /\ calls' = calls + 1
    /\ UNCHANGED <<constructed, threadVars>>

Project ==
    /\ Live
    /\ \E name \in Names, discovery \in Discoveries :
         LET g == project(projects, name, discovery)
         IN  /\ projects' = g.projects
             /\ discoveryCalls' = discoveryCalls + g.called
             /\ last' = CacheCall("project", name, projects,
                                  IF g.called = 1 THEN discovery ELSE NoDiscovery, g)
    /\ calls' = calls + 1
    /\ UNCHANGED <<constructed, threadVars>>

Next ==
    \/ Construct
    \/ Get
    \/ ExecutionsZql
    \/ Put
    \/ MoveExecutions
    \/ RaiseOnError
    \/ ReadProjects
    \/ Project

Spec == Init /\ [][Next]_vars

----------------------------------------------------------------------------
\* Two threads reading the projects property of one instance without a lock.
\* A thread runs the accessor a statement at a time: the check of line 55,
\* the discovery of lines 66-70 into the local list, the assignment of line
\* 71, the read of line 57.  The steps of different threads interleave freely.

T_Check(t) ==
    /\ constructed # "no"
    /\ tpc[t] = "idle"
    /\ tpc' = [tpc EXCEPT ![t] = IF IsNone(projects) THEN "load" ELSE "return"]
    /\ UNCHANGED <<constructed, projects, last, discoveryCalls, calls, tlocal, tret, stores>>

T_Discover(t) ==
    /\ tpc[t] = "load"
    /\ \E discovery \in Discoveries :
         /\ tpc' = [tpc EXCEPT ![t] = IF discovery.exc # "" THEN "raised" ELSE "store"]
         /\ tlocal' = [tlocal EXCEPT ![t] = MapProjects(discovery.found)]
    /\ discoveryCalls' = discoveryCalls + 1
    /\ UNCHANGED <<constructed, projects, last, calls, tret, stores>>

T_Store(t) ==
    /\ tpc[t] = "store"
    /\ projects' = StoreProjects(projects, tlocal[t])
    /\ stores' = Append(stores, t)
    /\ tpc' = [tpc EXCEPT ![t] = "return"]
    /\ UNCHANGED <<constructed, last, discoveryCalls, calls, tlocal, tret>>

T_Return(t) ==
    /\ tpc[t] = "return"
    /\ tret' = [tret EXCEPT ![t] = projects.items]
    /\ tpc' = [tpc EXCEPT ![t] = "done"]
    /\ UNCHANGED <<constructed, projects, last, discoveryCalls, calls, tlocal, stores>>

NextConc ==
    \/ Construct
    \/ \E t \in Threads : T_Check(t)
    \/ \E t \in Threads : T_Discover(t)
    \/ \E t \in Threads : T_Store(t)
    \/ \E t \in Threads : T_Return(t)

SpecConc == Init /\ [][NextConc]_vars

----------------------------------------------------------------------------
\* The claims.

CacheOps == {"projects", "project"}

\* The answer is a 200 whose body is a JSON object without the marker.
CleanAnswer(a) == a.status = 200 /\ JsonKind(a.body) = "object" /\ ~HasMarker(a.body)

\* C1: when the connectivity check is answered with status 200 and a body
\* without the error marker, _check_connection raises nothing and the
\* constructor returns, the project cache still uninitialized.
C1_ConstructionSucceedsOnCleanAnswer ==
    (last.op = "__init__" /\ CleanAnswer(last.answer))
        => (last.exc = "" /\ constructed = "returned" /\ ~projects.loaded)

\* C2: executions_zql issues one GET on the ZQL search URL and, when that GET
\* succeeds (200, no error descriptor), returns the parsed body of the response.
C2_ZqlReturnsParsedBody ==
    (last.op = "executions_zql" /\ CleanAnswer(last.answer))
        => /\ Len(last.sent) = 1
           /\ last.sent[1].verb = "GET"
           /\ last.exc = ""
           /\ last.value = last.answer.body

\* C3: move_executions issues exactly one PUT whose body holds the folder's
\* project id, its version id and the executions' ids in input order; a 200
\* completes without error, any other status raises JIRAError carrying the
\* response.
C3_MoveIssuesOnePut ==
    last.op = "move_executions"
        => /\ Len(last.sent) = 1
           /\ last.sent[1].verb = "PUT"
           /\ last.sent[1].data.projectId = last.folder.project
           /\ last.sent[1].data.versionId = last.folder.version
           /\ Len(last.sent[1].data.schedulesList) = Len(last.execs)
           /\ \A i \in 1..Len(last.execs) :
                last.sent[1].data.schedulesList[i] = last.execs[i].id
           /\ (last.answer.status = 200 => last.exc = "")
           /\ (last.answer.status \in Statuses \ {200}
                 => last.exc = "JIRAError" /\ last.resp = last.answer)

\* C4: a 200 whose body contains the error marker is treated as a 401 is: the
\* call raises the error class the same call raises for a 401 with that body.
C4_MarkedOkRaisesAs401 ==
    LET as401 == [status |-> 401, body |-> last.answer.body]
    IN  /\ (last.op \in {"get", "executions_zql"}
              /\ last.answer.status = 200 /\ HasMarker(last.answer.body))
            => (last.exc # "" /\ last.exc = get(last.sent[1].url, as401).exc)
        /\ (last.op = "raise_on_error"
              /\ last.answer.status = 200 /\ HasMarker(last.answer.body))
            => (last.exc # "" /\ last.exc = raise_on_error(as401).exc)

\* C5: every answer with a non-2xx status makes the normalizer raise, and a
\* 200 without the error marker in its body does not.
C5_RaisesExactlyOnErrors ==
    (last.op \in {"get", "raise_on_error"} /\ last.answer \in Responses)
        => /\ (last.answer.status \notin 200..299 => last.exc # "")
           /\ (last.answer.status = 200 /\ ~HasMarker(last.answer.body) => last.exc = "")

\* C6 as stated: over any sequence of serialized reads the discovery call is
\* performed at most once.
C6_DiscoveryAtMostOnce == discoveryCalls <= 1

\* C6 amended: a read of a loaded cache makes no discovery call and returns
\* the memoized collection; a read whose discovery succeeds leaves the cache
\* loaded (an empty collection too), one whose discovery raises leaves it
\* uninitialized; once the cache is loaded no operation changes it or calls
\* discovery again.
C6_LoadedOnceNeverReloaded ==
    /\ [](last.op \in CacheOps /\ last.before.loaded
            => /\ last.called = 0
               /\ projects = last.before
               /\ (last.op = "projects" => last.exc = "" /\ last.ret = last.before.items))
    /\ [](last.op \in CacheOps /\ last.called = 1 /\ last.discovery.exc = ""
            => projects.loaded /\ Len(projects.items) = Len(last.discovery.found))
    /\ [](last.op \in CacheOps /\ last.called = 1 /\ last.discovery.exc # ""
            => ~projects.loaded /\ last.exc # "")
    /\ [][projects.loaded
            => projects' = projects /\ discoveryCalls' = discoveryCalls]_vars

C6_Witness ==
    /\ last.op = "projects"
    /\ last.before.loaded
    /\ last.before.items = <<>>
    /\ last.ret = <<>>
    /\ discoveryCalls = 1
    /\ calls = 2

\* C7: project(name) returns the one Project of the loaded collection whose
\* name equals the input exactly when exactly one exists, raises when none or
\* several do, and never returns a Project of another name.
C7_ProjectByExactName ==
    (last.op = "project" /\ projects.loaded)
        => LET same == {i \in DOMAIN projects.items : projects.items[i].name = last.arg}
           IN  /\ Cardinality(same) = 1
                    => /\ last.exc = ""
                       /\ \A i \in same : last.ret = <<projects.items[i]>>
               /\ Cardinality(same) # 1 => last.exc = "ValueError" /\ last.ret = <<>>
               /\ \A i \in DOMAIN last.ret : last.ret[i].name = last.arg

C7_Witness ==
    /\ last.op = "project"
    /\ last.arg = "foo"
    /\ last.exc = ""
    /\ Len(projects.items) = 2
    /\ projects.items[1].name = "FOO"
    /\ last.ret = <<projects.items[2]>>

\* The request of the last call failed: it died in transport or was answered
\* with a status outside 2xx.
RequestFailed ==
    /\ last.sent # <<>>
    /\ (last.answer = Unreachable \/ last.answer.status \notin 200..299)

\* C8: a call whose HTTP request fails raises to its caller and issues no
\* further request; construction against a 401 fails after exactly one request.
C8_NoRetryNoCatch ==
    /\ last.op \in {"__init__", "get", "executions_zql", "move_executions"}
         => /\ Len(last.sent) <= 1
            /\ RequestFailed => last.exc # ""
    /\ (last.op = "__init__" /\ last.answer # Unreachable /\ last.answer.status = 401)
         => (constructed = "raised" /\ last.exc = "JIRAError" /\ Len(last.sent) = 1)

C8_Witness ==
    /\ last.op = "__init__"
    /\ last.answer.status = 401
    /\ constructed = "raised"
    /\ Len(last.sent) = 1

\* The threads that passed the None check of line 55 and ran discovery.
Loaders == {t \in Threads : tpc[t] \in {"store", "raised"} \/ \E i \in DOMAIN stores : stores[i] = t}

\* C9: without serialization both threads can pass the None check before
\* either stores; every thread that passed it performs its own discovery
\* call, and the cache holds the collection of the thread that stored last.
C9_CheckThenLoadNotAtomic ==
    /\ discoveryCalls = Cardinality(Loaders)
    /\ stores # <<>> => projects = Loaded(tlocal[stores[Len(stores)]])
    /\ \A t \in Threads : tpc[t] = "done" /\ tret[t] # <<>> => projects.loaded

C9_Witness ==
    /\ \A t \in Threads : tpc[t] = "done"
    /\ discoveryCalls = 2
    /\ Len(stores) = 2
    /\ tlocal[stores[1]] # tlocal[stores[2]]
    /\ projects = Loaded(tlocal[stores[2]])

\* C10: a discovery call that raises propagates to the caller and leaves the
\* cache None, so a read of a None cache always invokes discovery; the cache
\* is None or the complete collection of one successful discovery result.
C10_FailedDiscoveryLeavesNone ==
    /\ (last.op \in CacheOps /\ last.called = 1 /\ last.discovery.exc # "")
         => (last.exc = last.discovery.exc /\ projects = None)
    /\ (last.op \in CacheOps /\ ~last.before.loaded) => last.called = 1
    /\ (last.op \in CacheOps /\ last.called = 1 /\ last.discovery.exc = "")
         => /\ projects.loaded
            /\ Len(projects.items) = Len(last.discovery.found)
            /\ \A i \in DOMAIN projects.items :
                 /\ projects.items[i].name = last.discovery.found[i].key
                 /\ projects.items[i].id_ = last.discovery.found[i].id
    /\ ~projects.loaded => projects = None

C10_Witness ==
    /\ last.op = "projects"
    /\ ~last.before.loaded
    /\ last.called = 1
    /\ discoveryCalls = 2
    /\ projects.loaded
    /\ Len(projects.items) = 2

====
